---- MODULE Spec2Model ----
(***************************************************************************)
(* Model of subjectify.py (version 1.5): the per-record resolution         *)
(* pipeline (process_row and the functions it calls) and the batch loop of *)
(* the __main__ block.  The script is Python 2 (raw_input, iteritems,      *)
(* dict.keys() + list); requests' response.content is a str there, which   *)
(* is the only type get_tree parses.                                       *)
(***************************************************************************)
EXTENDS Integers, Sequences, FiniteSets, TLC

VARIABLES
    columns,          \* the field mapping: 4-tuple (isbn, issn, author, title)
    skip_columns,     \* valid_skip_columns: set of column identifiers, {} for None
    exact_searches,   \* module global exact_searches
    loaded,           \* history: the records as load_data returned them
    records_in,       \* the list of row objects (mutated in place by process_row)
    records_out,      \* the list rows are appended to by the batch loop
    index,            \* number of loop iterations completed (enumerate index)
    sleeps,           \* history: the time.sleep calls of the rate limiter
    calls,            \* history: one entry per process_row call
    written,          \* result of write_data
    pc                \* control point

vars == <<columns, skip_columns, exact_searches, loaded, records_in,
          records_out, index, sleeps, calls, written, pc>>

-----------------------------------------------------------------------------
(* Bounds *)

\* longest works list of a multi-work response
MaxWorks == 2
\* longest batch of the batch specification
MaxRecords == 2
\* length of the batch of the rate limiter specification
RateRecords == 10

-----------------------------------------------------------------------------
(* Python values *)

\* marker for an XML node or attribute that is not there
Absent == "<absent>"

\* A column identifier: a field name (str), a positional index (int) or None.
NameCol(s) == [t |-> "name", s |-> s, n |-> 0]
IdxCol(n) == [t |-> "idx", s |-> "", n |-> n]
NoneCol == [t |-> "None", s |-> "", n |-> 0]

\* Python truth value of a column identifier: None, 0 and "" are false.
Truthy(c) == \/ c.t = "name" /\ c.s # ""
             \/ c.t = "idx" /\ c.n # 0

\* A row: a dict (csv.DictReader), a list (csv.reader) or None.
DictRow(d) == [t |-> "dict", d |-> d, l |-> <<>>]
ListRow(l) == [t |-> "list", d |-> <<>>, l |-> l]
NoneRow == [t |-> "None", d |-> <<>>, l |-> <<>>]

\* row[c] does not raise KeyError / IndexError / TypeError
HasItem(row, c) ==
    \/ row.t = "dict" /\ c.t = "name" /\ c.s \in DOMAIN row.d
    \/ row.t = "list" /\ c.t = "idx" /\ c.n + 1 \in 1..Len(row.l)

\* row[c]; list indices are 0-based
GetItem(row, c) == IF row.t = "dict" THEN row.d[c.s] ELSE row.l[c.n + 1]

\* row["ddc"], row["lcc"] = ids   /   row.extend(ids)
Augment(row, ids) ==
    IF row.t = "dict"
    THEN DictRow([k \in DOMAIN row.d \cup {"ddc", "lcc"} |->
                    IF k = "ddc" THEN ids[1]
                    ELSE IF k = "lcc" THEN ids[2] ELSE row.d[k]])
    ELSE IF row.t = "list" THEN ListRow(row.l \o ids)
    ELSE row

-----------------------------------------------------------------------------
(* Lookup payloads *)

\* What oclc_search hands back: None, or the body of a 200 response.
\*   t        "None" | "text" (does not parse as XML) | "xml"
\*   response whether the classify:response node exists
\*   code     its code attribute (Absent when the attribute is missing)
\*   ddc,lcc  nsfa of recommendations/{ddc,lcc}/mostPopular (Absent when missing)
\*   works    the wi attributes of works/work, in document order
Payload(t, response, code, ddc, lcc, works) ==
    [t |-> t, response |-> response, code |-> code, ddc |-> ddc, lcc |-> lcc,
     works |-> works]

PyNone == Payload("None", FALSE, Absent, Absent, Absent, <<>>)
NotXml == Payload("text", FALSE, Absent, Absent, Absent, <<>>)
Xml(response, code, ddc, lcc, works) == Payload("xml", response, code, ddc, lcc, works)

\* int(s) for the attribute strings of the model; a string outside the domain
\* makes int() raise ValueError
IntLiterals ==
    ("0" :> 0) @@ ("2" :> 2) @@ ("3" :> 3) @@ ("4" :> 4) @@ ("100" :> 100)
    @@ ("101" :> 101) @@ ("102" :> 102) @@ ("200" :> 200)

\* works lists: up to MaxWorks works with a wi each, one work with an empty
\* wi, one work with no wi attribute
WorkIds == {"w1", "w2"}
WorkLists == UNION {[1..n -> WorkIds] : n \in 0..MaxWorks} \cup {<<"">>, <<Absent>>}

Responses ==
    {PyNone, NotXml, Xml(FALSE, Absent, Absent, Absent, <<>>)}
    \cup {Xml(TRUE, c, Absent, Absent, <<>>) :
            c \in {Absent, "4x", "3", "100", "101", "102", "200"}}
    \cup {Xml(TRUE, c, d, l, <<>>) :
            c \in {"0", "2"}, d \in {Absent, "d1"}, l \in {Absent, "l1"}}
    \cup {Xml(TRUE, "4", "d4", "l4", w) : w \in WorkLists}

-----------------------------------------------------------------------------
(* The functions of subjectify.py *)

\* get_tree: an ET for a parseable str or an ET, None for anything else
get_tree(xmldata) == IF xmldata.t = "xml" THEN xmldata ELSE PyNone

\* oclc_search builds the query; the answer is the service's.  data is a
\* str, or for "bib" the pair process_row built.
oclc_search(searchtype, data, exact) ==
    IF searchtype \in {"isbn", "issn", "wi", "title"}
    THEN [searchtype |-> searchtype, value |-> data, author |-> "", title |-> "",
          quoted |-> (searchtype = "title" /\ exact)]
    ELSE \* "bib":  author, title = data
         [searchtype |-> searchtype, value |-> "", author |-> data[1],
          title |-> data[2], quoted |-> exact]

\* extract_response: [raised, none, code]
Raised == [raised |-> TRUE, none |-> FALSE, code |-> 0]
RetNone == [raised |-> FALSE, none |-> TRUE, code |-> 0]
RetInt(n) == [raised |-> FALSE, none |-> FALSE, code |-> n]

extract_response(record_xml) ==
    LET tree == get_tree(record_xml) IN
    IF tree = PyNone THEN RetNone
    ELSE IF ~tree.response THEN RetNone
    ELSE IF tree.code = Absent THEN Raised                 \* KeyError
    ELSE IF tree.code \notin DOMAIN IntLiterals THEN Raised \* ValueError
    ELSE RetInt(IntLiterals[tree.code])

\* extract_ids, called by process_row only on a response of status 0 or 2
extract_ids(record_xml) ==
    LET tree == get_tree(record_xml) IN
    <<IF tree.ddc = Absent THEN "" ELSE tree.ddc,
      IF tree.lcc = Absent THEN "" ELSE tree.lcc>>

\* resolve_multiple on a response of status 4: [raised, wi].
\* "classify:works/classify:work[0]": ElementPath of Python 2.7 computes the
\* position as int("0") - 1 = -1 and keeps the work that is elems[-1], the
\* LAST work; with no work find() gives None and .attrib raises.
resolve_multiple(record_xml) ==
    LET tree == get_tree(record_xml) IN
    IF Len(tree.works) = 0 THEN [raised |-> TRUE, wi |-> ""]      \* AttributeError
    ELSE IF tree.works[Len(tree.works)] = Absent
         THEN [raised |-> TRUE, wi |-> ""]                        \* KeyError
    ELSE [raised |-> FALSE, wi |-> tree.works[Len(tree.works)]]

\* variants of the skip test: every skip column must hold data; only the
\* ddc column is looked at
SkipRowAll(row, skips) == \A c \in skips : GetItem(row, c) # ""
SkipRowDdcOnly(row, skips) ==
    NameCol("ddc") \in skips /\ GetItem(row, NameCol("ddc")) # ""

\* process_row, lines 209-217: some skip column holds data
SkipRow(row, skips) == \E c \in skips : GetItem(row, c) # ""

\* a skip column is missing from the row (the loop raises)
SkipRaises(row, skips) == \E c \in skips : ~HasItem(row, c)

\* process_row, lines 221-235: the search key; columns is 0-based in the code
NoKey == [search_type |-> "None", data |-> <<>>]
Key(st, data) == [search_type |-> st, data |-> data]

Mapped(row, c) == Truthy(c) /\ GetItem(row, c) # ""

SelectRaises(row, cols) ==
    \/ Truthy(cols[4]) /\ ~HasItem(row, cols[4])
    \/ Truthy(cols[4]) /\ HasItem(row, cols[4]) /\ GetItem(row, cols[4]) # ""
       /\ Truthy(cols[3]) /\ ~HasItem(row, cols[3])
    \/ Truthy(cols[2]) /\ ~HasItem(row, cols[2])
    \/ Truthy(cols[1]) /\ ~HasItem(row, cols[1])

SelectKey(row, cols) ==
    LET k1 == IF Mapped(row, cols[4])
              THEN IF Mapped(row, cols[3])
                   THEN Key("bib", <<GetItem(row, cols[4]), GetItem(row, cols[3])>>)
                   ELSE Key("title", <<GetItem(row, cols[4])>>)
              ELSE NoKey
        k2 == IF Mapped(row, cols[2]) THEN Key("issn", <<GetItem(row, cols[2])>>) ELSE k1
    IN  IF Mapped(row, cols[1]) THEN Key("isbn", <<GetItem(row, cols[1])>>) ELSE k2

\* The outcome of one call of process_row.
\*   outcome   "return" | "raise"
\*   arg       the row as passed in
\*   key       search_type and data as selected (NoKey when none was)
\*   value     the returned object (NoneRow for None)
\*   row       the row object after the call
\*   queries   the queries sent, responses their answers, in order
\*   augmented whether ddc/lcc were assigned
Outcome(outcome, arg, key, value, row, queries, responses, augmented) ==
    [outcome |-> outcome, arg |-> arg, key |-> key, value |-> value, row |-> row,
     queries |-> queries, responses |-> responses, augmented |-> augmented]

process_row(row, cols, skips, exact, resp1, resp2) ==
    IF skips # {} /\ SkipRaises(row, skips)
    THEN Outcome("raise", row, NoKey, NoneRow, row, <<>>, <<>>, FALSE)
    ELSE IF skips # {} /\ SkipRow(row, skips)
    THEN Outcome("return", row, NoKey, row, row, <<>>, <<>>, FALSE)
    ELSE IF SelectRaises(row, cols)
    THEN Outcome("raise", row, NoKey, NoneRow, row, <<>>, <<>>, FALSE)
    ELSE
    LET key == SelectKey(row, cols) IN
    IF key.search_type = "None"
    THEN Outcome("return", row, key, row, row, <<>>, <<>>, FALSE)
    ELSE
    LET q1 == oclc_search(key.search_type,
                          IF key.search_type = "bib" THEN key.data ELSE key.data[1],
                          exact)
        status == extract_response(resp1)
    IN
    IF status.raised
    THEN Outcome("raise", row, key, NoneRow, row, <<q1>>, <<resp1>>, FALSE)
    ELSE IF status.none \/ status.code >= 100
    THEN Outcome("return", row, key, row, row, <<q1>>, <<resp1>>, FALSE)
    ELSE IF status.code \in {0, 2}
    THEN LET new == Augment(row, extract_ids(resp1)) IN
         Outcome("return", row, key, new, new, <<q1>>, <<resp1>>, TRUE)
    ELSE IF status.code = 4
    THEN LET wi == resolve_multiple(resp1) IN
         IF wi.raised
         THEN Outcome("raise", row, key, NoneRow, row, <<q1>>, <<resp1>>, FALSE)
         ELSE IF wi.wi = ""
         THEN Outcome("return", row, key, NoneRow, row, <<q1>>, <<resp1>>, FALSE)
         ELSE
         LET q2 == oclc_search("wi", wi.wi, TRUE)
             parent_status == extract_response(resp2)
         IN
         IF parent_status.raised
         THEN Outcome("raise", row, key, NoneRow, row, <<q1, q2>>,
                      <<resp1, resp2>>, FALSE)
         ELSE IF ~parent_status.none /\ parent_status.code \in {0, 2}
         THEN LET new == Augment(row, extract_ids(resp2)) IN
              Outcome("return", row, key, new, new, <<q1, q2>>,
                      <<resp1, resp2>>, TRUE)
         ELSE Outcome("return", row, key, NoneRow, row, <<q1, q2>>,
                      <<resp1, resp2>>, FALSE)
    ELSE \* no branch of the if/elif chain is taken: the function ends, None
         Outcome("return", row, key, NoneRow, row, <<q1>>, <<resp1>>, FALSE)

-----------------------------------------------------------------------------
(* The batch loop of __main__ *)

\* the rate limiter's numbers
RateEvery == 10
RateLongEvery == 250
ShortSleep == 5
LongSleep == 355

\* "index+1 % 10 == 0": % binds tighter than +, so this is index + (1 % 10) == 0
RateLimitDue(i) == i + (1 % RateEvery) = 0
RateLimitLong(i) == i + (1 % RateLongEvery) = 0

\* The answer to the secondary lookup is drawn only when the primary answer
\* can lead to one.
SecondAnswers(answers, resp1) ==
    IF extract_response(resp1) = RetInt(4) THEN answers ELSE {PyNone}

\* one iteration of "for index, row in enumerate(records_in)", lines 405-417;
\* an exception out of process_row ends the program with a traceback;
\* answers are the payloads the lookup service may answer with
ProcessRecord(answers) ==
    /\ pc = "loop"
    /\ index < Len(records_in)
    /\ \E resp1 \in answers : \E resp2 \in SecondAnswers(answers, resp1) :
         LET r == process_row(records_in[index + 1], columns, skip_columns,
                              exact_searches, resp1, resp2)
         IN  /\ calls' = Append(calls, r)
             /\ IF r.outcome = "raise"
                THEN /\ pc' = "crashed"
                     /\ UNCHANGED <<records_in, records_out, index, sleeps>>
                ELSE /\ records_in' = [records_in EXCEPT ![index + 1] = r.row]
                     /\ records_out' = Append(records_out, r.value)
                     /\ sleeps' =
                          IF RateLimitDue(index)
                          THEN Append(sleeps,
                                      [after |-> index + 1,
                                       secs |-> IF RateLimitLong(index)
                                                THEN LongSleep ELSE ShortSleep])
                          ELSE sleeps
                     /\ index' = index + 1
                     /\ pc' = "loop"
    /\ UNCHANGED <<columns, skip_columns, exact_searches, loaded, written>>

\* lines 420-423: write_data; csv's writerows raises on a None row and
\* write_data answers False
WriteData ==
    /\ pc = "loop"
    /\ index = Len(records_in)
    /\ written' = (\A i \in 1..Len(records_out) : records_out[i] # NoneRow)
    /\ pc' = "done"
    /\ UNCHANGED <<columns, skip_columns, exact_searches, loaded,
                   records_in, records_out, index, sleeps, calls>>

-----------------------------------------------------------------------------
(* Inputs *)

default_fields == <<"isbn", "issn", "author", "title">>
\* the skip columns that name the classifier fields of a row: "ddc" and
\* "lcc" of a dict, the last two positions of a list that was extended
ClassifierFields == {NameCol("ddc"), NameCol("lcc")}
ClassifierCols(row) ==
    IF row.t = "dict" THEN ClassifierFields
    ELSE {IdxCol(Len(row.l) - 2), IdxCol(Len(row.l) - 1)}

\* each field is empty or holds a value of its own
FieldValues(k) ==
    {"", CASE k = "isbn" -> "i1" [] k = "issn" -> "s1" [] k = "author" -> "a1"
           [] k = "title" -> "t1" [] k = "ddc" -> "d0" [] OTHER -> "l0"}

DictRows(keys) == {DictRow(d) : d \in {f \in [keys -> {"", "i1", "s1", "a1", "t1", "d0", "l0"}] :
                                         \A k \in keys : f[k] \in FieldValues(k)}}

\* csv.reader rows of the four columns in the order named by perm
ListRows(perm) ==
    {ListRow([i \in 1..4 |-> d[perm[i]]]) :
        d \in {f \in [{"isbn", "issn", "author", "title"} ->
                        {"", "i1", "s1", "a1", "t1"}] :
                 \A k \in DOMAIN f : f[k] \in FieldValues(k)}}

NameCols(names) == [i \in 1..4 |-> NameCol(names[i])]

\* a run's configuration: the mapping, the skip columns and the rows a file
\* of that shape can hold
Config(cols, skips, rows) == [columns |-> cols, skip_columns |-> skips, rows |-> rows]

\* no option: default_fields (lines 387-391)
DefaultConfig ==
    Config(NameCols(default_fields), {}, DictRows({"isbn", "issn", "author", "title"}))

\* -f on a file that already has the classifier columns, with and without -e
FieldsConfigs ==
    {Config(NameCols(default_fields), s,
            DictRows({"isbn", "issn", "author", "title", "ddc", "lcc"})) :
        s \in {{}, ClassifierFields}}

\* -f on a file where find_field finds no ISSN and no Author column
PartialConfig ==
    Config(<<NameCol("isbn"), NoneCol, NoneCol, NameCol("title")>>, {},
           DictRows({"isbn", "title"}))

\* -c 0 1 2 3 and -c 3 2 1 0
ColumnsConfigs ==
    {Config(<<IdxCol(0), IdxCol(1), IdxCol(2), IdxCol(3)>>, {},
            ListRows(<<"isbn", "issn", "author", "title">>)),
     Config(<<IdxCol(3), IdxCol(2), IdxCol(1), IdxCol(0)>>, {},
            ListRows(<<"title", "author", "issn", "isbn">>))}

RowConfigs == {DefaultConfig, PartialConfig} \cup FieldsConfigs \cup ColumnsConfigs

-----------------------------------------------------------------------------------------------------------------------------------------------------
(* SpecRow: process_row called once on one record.                         *)

InitCalls(cfgs) ==
    /\ \E c \in cfgs :
         /\ columns = c.columns
         /\ skip_columns = c.skip_columns
         /\ \E row \in c.rows : loaded = <<row>>
    /\ records_in = loaded
    /\ records_out = <<>>
    /\ index = 0
    /\ sleeps = <<>>
    /\ calls = <<>>
    /\ written = FALSE
    /\ pc = "first"

Call(skips, next) ==
    /\ \E resp1 \in Responses : \E resp2 \in SecondAnswers(Responses, resp1) :
         LET r == process_row(records_in[1], columns, skips, exact_searches,
                              resp1, resp2)
         IN  /\ calls' = Append(calls, r)
             /\ records_in' = <<r.row>>
             /\ pc' = IF r.augmented THEN next ELSE "end"
    /\ UNCHANGED <<columns, skip_columns, exact_searches, loaded,
                   records_out, index, sleeps, written>>

InitRow == InitCalls(RowConfigs) /\ exact_searches \in BOOLEAN

CallOnce == pc = "first" /\ Call(skip_columns, "end")

SpecRow == InitRow /\ [][CallOnce]_vars

-----------------------------------------------------------------------------
(* SpecTwice: process_row called on a record and, when that call assigned  *)
(* ddc/lcc, called again on the same record with the classifier fields     *)
(* among the skip columns.                                                 *)

IsbnRows(keys) ==
    {r \in DictRows(keys) :
        /\ r.d["isbn"] # ""
        /\ \A k \in {"issn", "author", "title"} : r.d[k] = ""}

TwiceConfigs ==
    {Config(NameCols(default_fields), {},
            IsbnRows({"isbn", "issn", "author", "title"})),
     Config(NameCols(default_fields), {},
            IsbnRows({"isbn", "issn", "author", "title", "ddc", "lcc"})),
     Config(NameCols(default_fields), ClassifierFields,
            IsbnRows({"isbn", "issn", "author", "title", "ddc", "lcc"})),
     Config(<<IdxCol(1), IdxCol(2), IdxCol(3), IdxCol(4)>>, {},
            {ListRow(<<"r1", "i1", "", "", "">>)})}

InitTwice == InitCalls(TwiceConfigs) /\ exact_searches = TRUE

FirstCall == pc = "first" /\ Call(skip_columns, "second")

SecondCall ==
    pc = "second" /\ Call(skip_columns \cup ClassifierCols(records_in[1]), "end")

NextTwice == FirstCall \/ SecondCall

SpecTwice == InitTwice /\ [][NextTwice]_vars

-----
(* Spec: the batch loop over a short batch.                                *)

BatchResponses ==
    {PyNone, NotXml,
     Xml(TRUE, "4x", Absent, Absent, <<>>),
     Xml(TRUE, "102", Absent, Absent, <<>>),
     Xml(TRUE, "200", Absent, Absent, <<>>),
     Xml(TRUE, "0", "d1", "l1", <<>>),
     Xml(TRUE, "2", Absent, Absent, <<>>),
     Xml(TRUE, "4", "d4", "l4", <<"w1">>)}

BatchConfigs ==
    {Config(NameCols(default_fields), {},
            {DictRow([k \in {"isbn", "issn", "author", "title"} |-> ""]),
             DictRow([k \in {"isbn", "issn", "author", "title"} |->
                        IF k = "isbn" THEN "i1" ELSE ""]),
             DictRow([k \in {"isbn", "issn", "author", "title"} |->
                        IF k = "title" THEN "t1" ELSE ""])}),
     Config(NameCols(default_fields), ClassifierFields,
            {DictRow([k \in {"isbn", "issn", "author", "title", "ddc", "lcc"} |->
                        IF k = "isbn" THEN "i1" ELSE ""]),
             DictRow([k \in {"isbn", "issn", "author", "title", "ddc", "lcc"} |->
                        IF k = "isbn" THEN "i1" ELSE IF k = "ddc" THEN "d0" ELSE ""])})}

InitBatch(cfgs, lens) ==
    /\ \E c \in cfgs :
         /\ columns = c.columns
         /\ skip_columns = c.skip_columns
         /\ \E n \in lens : loaded \in [1..n -> c.rows]
    /\ records_in = loaded
    /\ exact_searches \in BOOLEAN
    /\ records_out = <<>>
    /\ index = 0
    /\ sleeps = <<>>
    /\ calls = <<>>
    /\ written = FALSE
    /\ pc = "loop"

Init == InitBatch(BatchConfigs, 1..MaxRecords)

Next == ProcessRecord(BatchResponses) \/ WriteData

Spec == Init /\ [][Next]_vars

-----------------------------------------------------------------------------
(* SpecRate: the batch loop over a batch long enough for the rate limiter, *)
(* against a service that is down or finds nothing.                        *)

RateResponses == {PyNone, Xml(TRUE, "102", Absent, Absent, <<>>)}

RateConfigs ==
    {Config(NameCols(default_fields), {},
            {DictRow([k \in {"isbn", "issn", "author", "title"} |->
                        IF k = "isbn" THEN "i1" ELSE ""])})}

InitRate == InitBatch(RateConfigs, {RateRecords})

NextRate == ProcessRecord(RateResponses) \/ WriteData

SpecRate == InitRate /\ [][NextRate]_vars

-----------------------------------------------------------------------------
(* The vocabulary of the specification document, used by the properties.   *)

\* a field identifier is mapped when it is not absent; it then names a value
SpecPopulated(row, c) == c # NoneCol /\ GetItem(row, c) # ""

\* Search Key Selector: ISBN, else ISSN, else TitleAuthor / Title, else none
SpecKey(row, cols) ==
    IF SpecPopulated(row, cols[1]) THEN Key("isbn", <<GetItem(row, cols[1])>>)
    ELSE IF SpecPopulated(row, cols[2]) THEN Key("issn", <<GetItem(row, cols[2])>>)
    ELSE IF SpecPopulated(row, cols[4])
    THEN IF SpecPopulated(row, cols[3])
         THEN Key("bib", <<GetItem(row, cols[4]), GetItem(row, cols[3])>>)
         ELSE Key("title", <<GetItem(row, cols[4])>>)
    ELSE NoKey

\* some configured skip column holds a non-empty value
SpecSkipped(row, skips) == \E c \in skips : GetItem(row, c) # ""

\* the payload has a response node with this code attribute
HasCode(r, codes) == r.t = "xml" /\ r.response /\ r.code \in codes

SingleCodes == {"0", "2"}
UnresolvedCodes == {"100", "101", "102", "200"}
IntegerCodes == {"0", "2", "3", "4", "100", "101", "102", "200"}

\* no payload (transport failure), no parse, no response node, or a code
\* attribute that is absent or not an integer
SpecMalformed(r) ==
    \/ r.t # "xml"
    \/ ~r.response
    \/ r.code \notin IntegerCodes

SpecUnresolved(r) == SpecMalformed(r) \/ HasCode(r, UnresolvedCodes)

\* the record, unmodified or with a classification result merged in
SpecProcessed(in, out) ==
    \/ out = in
    \/ \E d \in {"", "d1", "d4"}, l \in {"", "l1", "l4"} : out = Augment(in, <<d, l>>)

\* the classifiers a single-work payload carries
SpecIds(r) == <<IF r.ddc = Absent THEN "" ELSE r.ddc,
                IF r.lcc = Absent THEN "" ELSE r.lcc>>

-----------------------------------------------------------------------------
(* Properties                                                              *)

\* C1: every call of process_row ends by returning the record it was given,
\* unmodified or augmented with ddc/lcc; it never raises and never returns
\* None; with primary status 4 and no secondary status 0/2 the record comes
\* back unchanged.
C1_ReturnsRecord ==
    \A i \in DOMAIN calls :
        LET c == calls[i] IN
        /\ c.outcome = "return"
        /\ c.value # NoneRow
        /\ SpecProcessed(c.arg, c.value)
        /\ (/\ Len(c.responses) >= 1
            /\ HasCode(c.responses[1], {"4"})
            /\ (Len(c.responses) = 1 \/ ~HasCode(c.responses[2], SingleCodes)))
           => c.value = c.arg

\* C2: for every record that is not skipped, the key process_row selects is
\* ISBN if the ISBN field is mapped and non-empty, else ISSN, else
\* TitleAuthor or Title, else none, and with no key no lookup is issued; a
\* mapped field may be a name or any positional index, 0 included.
C2_KeySelection ==
    \A i \in DOMAIN calls :
        LET c == calls[i] IN
        ~(skip_columns # {} /\ SpecSkipped(c.arg, skip_columns))
        => /\ c.key = SpecKey(c.arg, columns)
           /\ (SpecKey(c.arg, columns) = NoKey => c.queries = <<>>)

\* C3: when skip columns are configured and one of them holds a non-empty
\* value, process_row returns the record with every field unchanged and
\* sends no query, primary or secondary.
C3_SkipNoLookup ==
    \A i \in DOMAIN calls :
        LET c == calls[i] IN
        (skip_columns # {} /\ SpecSkipped(c.arg, skip_columns))
        => /\ c.outcome = "return"
           /\ c.value = c.arg
           /\ c.row = c.arg
           /\ c.queries = <<>>
           /\ c.key = NoKey

\* a skipped record that has data in every identifier field, so that a
\* lookup would have been made had it not been skipped
C3_Witness ==
    /\ calls # <<>>
    /\ skip_columns # {}
    /\ SpecSkipped(calls[1].arg, skip_columns)
    /\ \A k \in {"isbn", "issn", "author", "title"} : calls[1].arg.d[k] # ""

\* C4: when the primary answer has status 4 and lists works, the first of
\* which has an identifier, process_row sends exactly one secondary query,
\* of type wi, for that first work's identifier; when the secondary answer
\* has status 0 or 2 the returned record carries the secondary answer's
\* ddc/lcc.
C4_FirstWorkResolved ==
    \A i \in DOMAIN calls :
        LET c == calls[i] IN
        (/\ Len(c.responses) >= 1
         /\ HasCode(c.responses[1], {"4"})
         /\ Len(c.responses[1].works) >= 1
         /\ c.responses[1].works[1] \notin {"", Absent})
        => /\ Len(c.queries) = 2
           /\ c.queries[2].searchtype = "wi"
           /\ c.queries[2].value = c.responses[1].works[1]
           /\ HasCode(c.responses[2], SingleCodes)
              => /\ c.outcome = "return"
                 /\ c.value = Augment(c.arg, SpecIds(c.responses[2]))

\* C5: extract_response never raises: on every payload the service sent it
\* gives 0 or 2 for a single work, 4 for several, the code for 100, 101,
\* 102 and 200, and None for a payload that does not parse, has no response
\* node, or has an absent or non-integer code attribute.
C5_ClassifierTotal ==
    \A i \in DOMAIN calls : \A j \in DOMAIN calls[i].responses :
        LET r == calls[i].responses[j]
            s == extract_response(r)
        IN  /\ ~s.raised
            /\ HasCode(r, SingleCodes) => ~s.none /\ s.code \in {0, 2}
            /\ HasCode(r, {"4"}) => ~s.none /\ s.code = 4
            /\ HasCode(r, UnresolvedCodes) => ~s.none /\ s.code >= 100
            /\ SpecMalformed(r) => s.none

\* C6: when the primary lookup is unresolved (status >= 100, malformed
\* payload or transport failure) process_row returns the original record
\* without ddc/lcc after that one query, and the batch loop goes on.
C6_UnresolvedPassesThrough ==
    \A i \in DOMAIN calls :
        LET c == calls[i] IN
        (Len(c.responses) >= 1 /\ SpecUnresolved(c.responses[1]))
        => /\ c.outcome = "return"
           /\ c.value = loaded[i]
           /\ Len(c.queries) = 1
           /\ pc # "crashed"
           /\ Len(records_out) >= i
           /\ records_out[i] = loaded[i]

\* C7: the batch loop sleeps after record n exactly when n is a multiple of
\* 10: the long interval when n is a multiple of 250, the short one
\* otherwise.
C7_RateLimiter ==
    \A n \in 1..index :
        LET pauses == {k \in DOMAIN sleeps : sleeps[k].after = n} IN
        IF n % RateEvery = 0
        THEN \E k \in pauses :
                sleeps[k].secs = IF n % RateLongEvery = 0 THEN LongSleep ELSE ShortSleep
        ELSE pauses = {}

\* C8 as stated: whenever a first call has assigned ddc/lcc, empty or not,
\* the second call with ddc and lcc among the skip columns sends no query
\* and returns the record as it was.
C8_IdempotentAlways ==
    Len(calls) = 2
    => /\ calls[2].queries = <<>>
       /\ calls[2].outcome = "return"
       /\ calls[2].value = calls[1].value
       /\ calls[2].row = calls[1].value

\* C8 (amended): whenever a first call has assigned ddc/lcc and at least one
\* of the two is non-empty, the second call with ddc and lcc among the skip
\* columns sends no query and returns the record as it was.
C8_IdempotentWhenClassified ==
    (/\ Len(calls) = 2
      /\ SpecSkipped(calls[1].value, ClassifierCols(calls[1].value)))
    => /\ calls[2].queries = <<>>
       /\ calls[2].outcome = "return"
       /\ calls[2].value = calls[1].value
       /\ calls[2].row = calls[1].value

\* a second call on a record whose first call found an lcc and no ddc
C8_Witness ==
    /\ Len(calls) = 2
    /\ calls[1].augmented
    /\ calls[1].value.t = "dict"
    /\ calls[1].value.d["ddc"] = ""
    /\ calls[1].value.d["lcc"] = "l1"

\* C9: the i-th call of process_row is on the i-th input record, and when
\* the loop is done there is one output per input, the i-th output being
\* the i-th input record as processed.
C9_OrderAndCardinality ==
    /\ \A i \in DOMAIN calls : calls[i].arg = loaded[i]
    /\ pc = "done"
       => /\ Len(records_out) = Len(loaded)
          /\ \A i \in DOMAIN records_out :
                SpecProcessed(loaded[i], records_out[i])

\* C10: when the selected key is title and author, the query carries the
\* record's title as title and the record's author as author, quoted
\* exactly when exact matching is on.
C10_BibParameters ==
    \A i \in DOMAIN calls :
        LET c == calls[i] IN
        c.key.search_type = "bib"
        => /\ c.queries[1].searchtype = "bib"
           /\ c.queries[1].title = GetItem(c.arg, columns[4])
           /\ c.queries[1].author = GetItem(c.arg, columns[3])
           /\ c.queries[1].quoted = exact_searches

====
